---- MODULE Spec2Model ----
(***************************************************************************)
(* A model of the ASR backend's adapter core: one transcribe call of one   *)
(* of the four adapters (WhisperJAXModel, OmniLingualAPIModel,             *)
(* ChunkformerModel, Qwen3Model), the audio normaliser it calls            *)
(* (convert_to_wav_bytes and its ffmpeg fallback) and, for Qwen3Model,     *)
(* the sweep over language and endpoint candidates.                        *)
(*                                                                         *)
(* Strings the code inspects character by character (language codes,      *)
(* text fields) are sequences of one-character strings; URLs are          *)
(* sequences of tokens (scheme, host, port, "/", path segment, " ").       *)
(* Strings the code only copies (error bodies) are TLA+ strings.           *)
(***************************************************************************)
EXTENDS Integers, Sequences, FiniteSets, TLC

\* ------------------------------------------------------------ strings

Range(s) == { s[i] : i \in 1..Len(s) }

Whitespace == { " ", "\t", "\n" }

RECURSIVE LStrip(_)
\* str.lstrip(): drop leading whitespace
LStrip(s) ==
  IF s # <<>> /\ Head(s) \in Whitespace THEN LStrip(Tail(s)) ELSE s

RECURSIVE RStrip(_)
\* str.rstrip(): drop trailing whitespace
RStrip(s) ==
  IF s # <<>> /\ s[Len(s)] \in Whitespace
  THEN RStrip(SubSeq(s, 1, Len(s) - 1))
  ELSE s

\* str.strip()
Strip(s) == RStrip(LStrip(s))

UpperToLower ==
  [c \in {"E", "N", "V", "I", "F", "R", "U", "S", "Y", "X", "L"} |->
     CASE c = "E" -> "e" [] c = "N" -> "n" [] c = "V" -> "v" [] c = "I" -> "i"
       [] c = "F" -> "f" [] c = "R" -> "r" [] c = "U" -> "u" [] c = "S" -> "s"
       [] c = "Y" -> "y" [] c = "X" -> "x" [] c = "L" -> "l"]

\* str.lower()
Lower(s) ==
  [i \in 1..Len(s) |-> IF s[i] \in DOMAIN UpperToLower THEN UpperToLower[s[i]] ELSE s[i]]

RECURSIVE SplitFirst(_, _)
\* s.split(sep, 1)[0]: the part before the first occurrence of sep
SplitFirst(s, sep) ==
  IF s = <<>> \/ Head(s) = sep THEN <<>>
  ELSE <<Head(s)>> \o SplitFirst(Tail(s), sep)

\* Optional[str]
None == [some |-> FALSE, s |-> <<>>]
Some(s) == [some |-> TRUE, s |-> s]
\* Python truthiness of an Optional[str]
Truthy(o) == o.some /\ o.s # <<>>

\* ------------------------------------------- Qwen3Model: language codes

\* iso2_to_iso3 of normalize_lang_code
iso2_to_iso3 ==
  (<<"e", "n">> :> <<"e", "n", "g">>)
  @@ (<<"v", "i">> :> <<"v", "i", "e">>)
  @@ (<<"f", "r">> :> <<"f", "r", "a">>)
  @@ (<<"d", "e">> :> <<"d", "e", "u">>)
  @@ (<<"e", "s">> :> <<"s", "p", "a">>)
  @@ (<<"i", "t">> :> <<"i", "t", "a">>)
  @@ (<<"p", "t">> :> <<"p", "o", "r">>)
  @@ (<<"r", "u">> :> <<"r", "u", "s">>)
  @@ (<<"j", "a">> :> <<"j", "p", "n">>)
  @@ (<<"k", "o">> :> <<"k", "o", "r">>)
  @@ (<<"z", "h">> :> <<"c", "m", "n">>)
  @@ (<<"a", "r">> :> <<"a", "r", "a">>)
  @@ (<<"h", "i">> :> <<"h", "i", "n">>)

\* normalize_lang_code(lang): None for an absent or blank code, the ISO3 code
\* of a known two-letter code, else the part before the first "_", else the
\* stripped code itself
normalize_lang_code(lang) ==
  IF ~Truthy(lang) THEN None
  ELSE LET l == Strip(lang.s) IN
    IF l = <<>> THEN None
    ELSE IF Lower(l) \in DOMAIN iso2_to_iso3 THEN Some(iso2_to_iso3[Lower(l)])
    ELSE IF "_" \in Range(l) THEN Some(SplitFirst(l, "_"))
    ELSE Some(l)

\* name_map of candidate_lang_codes
name_map ==
  (<<"e", "n", "g">> :> <<"E", "n", "g", "l", "i", "s", "h">>)
  @@ (<<"e", "n">> :> <<"E", "n", "g", "l", "i", "s", "h">>)
  @@ (<<"v", "i", "e">> :> <<"V", "i", "e", "t", "n", "a", "m", "e", "s", "e">>)
  @@ (<<"v", "i">> :> <<"V", "i", "e", "t", "n", "a", "m", "e", "s", "e">>)

\* AppendNew without the "not in" guard
AppendNew_Always(list, x) == Append(list, x)

\* list.append guarded by "not in"
AppendNew(list, x) == IF x \in Range(list) THEN list ELSE Append(list, x)

\* candidate_lang_codes(lang): the lang_code values to try, in order
candidate_lang_codes(lang) ==
  LET normalized == normalize_lang_code(lang) IN
  IF ~Truthy(normalized) THEN <<>>
  ELSE LET c1 == AppendNew(<<>>, normalized.s)
           lower == Lower(normalized.s)
           c2 == IF lower \in DOMAIN name_map THEN AppendNew(c1, name_map[lower]) ELSE c1
       IN AppendNew(c2, normalized.s)

\* all_langs: the outer loop's list, [None] when there is no candidate
all_langs(lang_candidates) ==
  IF lang_candidates # <<>>
  THEN [i \in 1..Len(lang_candidates) |-> Some(lang_candidates[i])]
  ELSE <<None>>

\* ------------------------------------------- Qwen3Model: endpoint candidates
\* A URL is a sequence of tokens: scheme ("http://"), host, optional port
\* (":8005"), then "/" and path segments; " " is surrounding whitespace.

RECURSIVE RStripSlash(_)
\* str.rstrip("/")
RStripSlash(u) ==
  IF u # <<>> /\ u[Len(u)] = "/" THEN RStripSlash(SubSeq(u, 1, Len(u) - 1)) ELSE u

\* urlparse(endpoint).path: everything from the first "/" after the netloc
UrlPath(u) ==
  LET slashes == { i \in 1..Len(u) : u[i] = "/" } IN
  IF slashes = {} THEN <<>>
  ELSE SubSeq(u, CHOOSE i \in slashes : \A j \in slashes : i <= j, Len(u))

\* urlparse(endpoint).hostname
UrlHost(u) == u[2]

\* '"/seg" in path'
PathContains(path, seg) ==
  \E i \in 1..(Len(path) - 1) : path[i] = "/" /\ path[i + 1] = seg

\* urlunparse(parsed._replace(netloc=f"{hostname}:PORT", path="", ...)).rstrip("/")
DirectBase(u, port) == RStripSlash(<<u[1], UrlHost(u), port>>)

\* _add_endpoint that puts a new URL in front
_add_endpoint_InFront(cands, url) ==
  IF url = <<>> THEN cands
  ELSE IF url \in Range(cands) THEN cands
  ELSE <<url>> \o cands

\* _add_endpoint(candidates, url)
_add_endpoint(cands, url) ==
  IF url = <<>> THEN cands
  ELSE IF url \in Range(cands) THEN cands
  ELSE Append(cands, url)

\* The endpoint candidates built before the sweep, in order
EndpointCandidates(self_endpoint) ==
  LET ep == Strip(self_endpoint)
      c0 == _add_endpoint(<<>>, ep)
      base == RStripSlash(ep)
      c1 == IF base # <<>>
            THEN _add_endpoint(
                   _add_endpoint(
                     _add_endpoint(c0, base \o <<"/", "asr">>),
                     base \o <<"/", "transcribe">>),
                   base \o <<"/", "transcribe", "/", "upload">>)
            ELSE c0
      path == IF ep # <<>> THEN UrlPath(ep) ELSE <<>>
      c2 == IF ep # <<>> /\ PathContains(path, "asr_q3_1_7B")
            THEN _add_endpoint(
                   _add_endpoint(c1, DirectBase(ep, ":8005") \o <<"/", "asr">>),
                   DirectBase(ep, ":8005") \o <<"/", "transcribe">>)
            ELSE c1
      c3 == IF ep # <<>> /\ PathContains(path, "asr_q3_0_6B")
            THEN _add_endpoint(
                   _add_endpoint(c2, DirectBase(ep, ":8006") \o <<"/", "asr">>),
                   DirectBase(ep, ":8006") \o <<"/", "transcribe">>)
            ELSE c2
  IN c3

\* ------------------------------------------------------------ inputs

\* The adapter classes of MODEL_REGISTRY
Adapters == { "WhisperJAXModel", "OmniLingualAPIModel", "ChunkformerModel", "Qwen3Model" }

Tasks == { "transcribe", "translate" }

\* language arguments: absent, "en", "fr", "vie_Latn"
Languages ==
  { None,
    Some(<<"e", "n">>),
    Some(<<"f", "r">>),
    Some(<<"v", "i", "e", "_", "L", "a", "t", "n">>) }

\* audio_bytes: zero-length, or some bytes
AudioInputs == { "empty", "data" }

\* self.endpoint as resolved by the constructor
Endpoints(a) ==
  IF a = "Qwen3Model"
  THEN { <<" ">>,
         <<"http://", "h", ":8005", "/", "asr">>,
         <<"http://", "h", "/", "asr_q3_1_7B">> }
  ELSE { <<"http://", "h", "/", "asr">> }

\* HTTP status codes a provider answers with
Statuses == { 200, 400, 401, 404, 405, 422, 500 }

\* response.text of a non-200 answer
ErrorBodies == { "e1", "e2" }

\* ------------------------------------------------------------ JSON bodies

MaxFields == 2

JsonKeys == { "text", "status", "transcript" }

StrVal(s) == [t |-> "str", s |-> s]
\* a JSON number other than 0
NumVal == [t |-> "num", s |-> <<>>]

JsonValues ==
  { StrVal(<<" ", "h", "i", " ">>),
    StrVal(<<>>),
    StrVal(<<"o", "k">>),
    StrVal(<<"e", "r", "r", "o", "r">>),
    NumVal }

JsonFields == [key : JsonKeys, val : JsonValues]

\* JSON objects: fields in encounter order, keys distinct
JsonObjects ==
  UNION { { o \in [1..n -> JsonFields] :
              \A i, j \in 1..n : i # j => o[i].key # o[j].key } : n \in 0..MaxFields }

\* JSON documents that are one string: " hi " and "hi"
JsonStrings == { <<" ", "h", "i", " ">>, <<"h", "i">> }

NoBody == [kind |-> "none", obj |-> <<>>, str |-> <<>>]
\* the body of a 200 answer: a JSON object, a JSON string, or text that is no JSON
Bodies ==
  { [kind |-> "not_json", obj |-> <<>>, str |-> <<>>] }
  \cup { [kind |-> "object", obj |-> o, str |-> <<>>] : o \in JsonObjects }
  \cup { [kind |-> "string", obj |-> <<>>, str |-> s] : s \in JsonStrings }

\* ------------------------------------------------------------ decoded audio
\* A clip is the frames of the audio in order, each frame the samples of its
\* channels; a sample s stands for the float s / 32767.

MaxFrames == 3

\* channel counts: mono and stereo
Channels == { 1, 2 }

SampleValues == { -3, 0, 4 }

Clips == UNION { [1..n -> [1..c -> SampleValues]] : n \in 1..MaxFrames, c \in Channels }

\* the clip a non-empty audio_bytes holds when the clip is not the input drawn
StereoClip == << <<4, 0>>, <<-3, -3>>, <<0, 4>> >>

\* a numpy array: ndim, and its elements (ndim 1) or its rows (ndim 2)
NoArray == [ndim |-> 0, data |-> <<>>]

\* sf.read(audio_stream): shape (frames,) for mono, (frames, channels) otherwise
sf_read(clip) ==
  IF Len(clip[1]) = 1 THEN [ndim |-> 1, data |-> [i \in 1..Len(clip) |-> clip[i][1]]]
  ELSE [ndim |-> 2, data |-> clip]

\* librosa.load(audio_stream, sr=None, mono=False): shape (frames,) for mono,
\* (channels, frames) otherwise
librosa_load(clip) ==
  IF Len(clip[1]) = 1 THEN [ndim |-> 1, data |-> [i \in 1..Len(clip) |-> clip[i][1]]]
  ELSE [ndim |-> 2,
        data |-> [c \in 1..Len(clip[1]) |-> [i \in 1..Len(clip) |-> clip[i][c]]]]

\* what the decoder of a stage returns
Decode(stage, clip) == IF stage = "soundfile" THEN sf_read(clip) ELSE librosa_load(clip)

RECURSIVE Sum(_)
Sum(row) == IF row = <<>> THEN 0 ELSE Head(row) + Sum(Tail(row))

\* "if len(audio_array.shape) > 1: audio_array = np.mean(audio_array, axis=1)":
\* one element per row, kept as the fraction <<sum, count>>
ToMono(a) ==
  IF a.ndim > 1
  THEN [ndim |-> 1, data |-> [r \in 1..Len(a.data) |-> <<Sum(a.data[r]), Len(a.data[r])>>]]
  ELSE [ndim |-> 1, data |-> [r \in 1..Len(a.data) |-> <<a.data[r], 1>>]]

\* (x * 32767).astype(np.int16) of the float num / (den * 32767): the quotient
\* rounded toward zero
AsInt16(q) ==
  IF q[1] >= 0 THEN q[1] \div q[2] ELSE -((-q[1]) \div q[2])

\* audio_int16, the samples wav_bytes_from_array writes as one channel
WavSamples(mono) == [i \in 1..Len(mono.data) |-> AsInt16(mono.data[i])]

\* ------------------------------------------------------------ registry inputs

\* MODEL_REGISTRY.keys(), in the order of the dict literal
RegistryNames == << "whisper_jax", "omni_lingual", "chunkformer", "qwen3_1_7B", "qwen3_0_6B" >>

\* MODEL_REGISTRY
MODEL_REGISTRY ==
  [n \in Range(RegistryNames) |->
     CASE n = "whisper_jax" -> "WhisperJAXModel"
       [] n = "omni_lingual" -> "OmniLingualAPIModel"
       [] n = "chunkformer" -> "ChunkformerModel"
       [] OTHER -> "Qwen3Model"]

\* the "model" form field of a request: two registered names and one that is not
ModelNames == { "whisper_jax", "qwen3_1_7B", "whisper_large" }

\* DEFAULT_MODEL, with ASR_DEFAULT_MODEL unset
DEFAULT_MODEL == "whisper_jax"

\* The requests the event loop serves at the same time
Requesters == { "r1", "r2" }

\* ------------------------------------------------------------ state

VARIABLES
  adapter,        \* the adapter class whose transcribe runs
  task,           \* transcribe's task argument
  language,       \* transcribe's language argument
  audio,          \* transcribe's audio_bytes argument
  endpoint,       \* self.endpoint
  libs,           \* audio_utils: soundfile and librosa were importable (sf, librosa not None)
  pc,             \* position in the call
  invoked,        \* decode strategies invoked so far, in order
  stageErrors,    \* the errors e1, e2, e3 caught so far: <<stage, error>> records
  subprocessRuns, \* subprocess.run calls made
  created,        \* temporary files this call created
  tmpFiles,       \* temporary files that exist now
  ffPending,      \* _convert_with_ffmpeg: what leaves the try block ("", "ok" or an error)
  conv,           \* outcome of convert_to_wav_bytes
  streamAtEnd,    \* the audio stream object handed to requests has been read to its end
  lang_candidates,\* Qwen3Model: candidate_lang_codes(language)
  candidates,     \* Qwen3Model: endpoint candidates
  li,             \* Qwen3Model: index of the outer loop in all_langs
  ui,             \* Qwen3Model: index of the inner loop in candidates
  sent,           \* the requests posted so far, in order
  response,       \* the last response received
  last_error,     \* Qwen3Model: last recorded client-error body
  body,           \* the decoded body of the 200 response
  result,         \* what transcribe returned or raised
  model_cache,    \* api/main.py: model_cache, a function from the cached names to adapters
  constructed,    \* how many adapters get_model constructed, per name
  reqs,           \* the /transcribe/upload requests in flight, per requester
  reply,          \* the last answer a route gave
  pcm,            \* the clip audio_bytes holds (<<>> for zero-length audio)
  audio_array,    \* convert_to_wav_bytes: audio_array
  wav             \* the samples convert_to_wav_bytes wrote with wav_bytes_from_array

inputVars == <<adapter, task, language, audio, endpoint, libs>>
convVars == <<invoked, stageErrors, subprocessRuns, created, tmpFiles, ffPending, conv>>
sweepVars == <<lang_candidates, candidates, li, ui, last_error>>
httpVars == <<streamAtEnd, sent, response, body>>
regVars == <<model_cache, constructed, reqs, reply>>
pcmVars == <<pcm, audio_array, wav>>
vars == <<inputVars, pc, convVars, sweepVars, httpVars, result, regVars, pcmVars>>

NoResponse == [status |-> 0, text |-> ""]
NoError == [some |-> FALSE, text |-> ""]
NoConv == [state |-> "idle", kind |-> "", via |-> "", reported |-> <<>>]
NoResult ==
  [ok |-> FALSE, kind |-> "pending", text |-> <<>>, status |-> 0, body |-> "",
   json |-> NoBody, stages |-> <<>>, wrapped |-> FALSE]

\* transcribe returned text
Returned(text) == [NoResult EXCEPT !.ok = TRUE, !.kind = "text", !.text = text]
\* transcribe raised; wrapped: re-raised by "except Exception" as "Transcription failed: ..."
Raised(kind, wrapped) == [NoResult EXCEPT !.kind = kind, !.wrapped = wrapped]

\* no adapter object, no exception
NoModel == [class |-> "", name |-> "", endpoint |-> "", serial |-> 0]
NoException == [kind |-> "", model |-> "", available |-> <<>>]

\* No request in flight: nothing resolved, nothing answered
IdleRequest == [pc |-> "idle", name |-> "", model |-> NoModel]
\* nothing answered yet
NoReply == [route |-> "", status |-> 0, detail |-> NoException, models_info |-> <<>>]

\* api/main.py after import: an empty cache, nothing constructed, nothing served
RegistryInit ==
  /\ model_cache = <<>>
  /\ constructed = [n \in Range(RegistryNames) |-> 0]
  /\ reqs = [r \in Requesters |-> IdleRequest]
  /\ reply = NoReply

Init ==
  /\ RegistryInit
  /\ adapter \in Adapters
  /\ task \in Tasks
  /\ language \in Languages
  /\ audio \in AudioInputs
  /\ endpoint \in Endpoints(adapter)
  /\ libs \in BOOLEAN
  /\ pc = "call"
  /\ invoked = <<>>
  /\ stageErrors = <<>>
  /\ subprocessRuns = 0
  /\ created = {}
  /\ tmpFiles = {}
  /\ ffPending = ""
  /\ conv = NoConv
  /\ streamAtEnd = FALSE
  /\ lang_candidates = <<>>
  /\ candidates = <<>>
  /\ li = 1
  /\ ui = 1
  /\ sent = <<>>
  /\ response = NoResponse
  /\ last_error = NoError
  /\ body = NoBody
  /\ result = NoResult
  /\ pcm = IF audio = "empty" THEN <<>> ELSE StereoClip
  /\ audio_array = NoArray
  /\ wav = <<>>

\* ------------------------------------------------------------ task check

\* SupportsTask with Chunkformer's task check left out
SupportsTask_ChunkformerAny(a, t) ==
  a \in { "WhisperJAXModel", "ChunkformerModel" } \/ t = "transcribe"

\* "if task != 'transcribe': raise ValueError" of the three API adapters;
\* WhisperJAXModel has no such check
SupportsTask(a, t) == a = "WhisperJAXModel" \/ t = "transcribe"

\* The adapters that call convert_to_wav_bytes before posting
ConvertingAdapters == { "ChunkformerModel", "Qwen3Model" }

\* transcribe raises ValueError for an unsupported task, first thing
RejectTask ==
  /\ pc = "call"
  /\ ~SupportsTask(adapter, task)
  /\ result' = Raised("UnsupportedTask", FALSE)
  /\ pc' = "done"
  /\ UNCHANGED <<pcmVars, regVars, inputVars, convVars, sweepVars, httpVars>>

\* ------------------------------------------------------------ convert_to_wav_bytes

\* NextStrategy with the librosa stage skipped
NextStrategy_SkipLibrosa(stage) == "ffmpeg"

\* The strategy tried after `stage` raised (the nesting of the except blocks)
NextStrategy(stage) ==
  CASE stage = "soundfile" -> "librosa"
    [] stage = "librosa" -> "ffmpeg"

\* where a strategy starts
StagePc(stage) ==
  CASE stage = "soundfile" -> "soundfile"
    [] stage = "librosa" -> "librosa"
    [] stage = "ffmpeg" -> "ff_input"

\* Whether an in-process decoder can succeed: zero bytes never decode
DecodeOutcomes(a) == IF a = "empty" THEN { FALSE } ELSE BOOLEAN

\* convert_to_wav_bytes is called: the import guard, then the first strategy
BeginConvert ==
  /\ pc = "call"
  /\ adapter \in ConvertingAdapters
  /\ SupportsTask(adapter, task)
  /\ IF ~libs
     THEN /\ conv' = [NoConv EXCEPT !.state = "failed", !.kind = "DepsMissing"]
          /\ pc' = "conv_failed"
     ELSE /\ conv' = [NoConv EXCEPT !.state = "running"]
          /\ pc' = StagePc("soundfile")
  /\ UNCHANGED <<pcmVars, regVars, inputVars, invoked, stageErrors, subprocessRuns, created, tmpFiles,
                 ffPending, sweepVars, httpVars, result>>

\* an in-process decoder is called and succeeds or raises
TryDecoder(stage) ==
  /\ pc = StagePc(stage)
  /\ invoked' = Append(invoked, stage)
  /\ \E ok \in DecodeOutcomes(audio) :
       IF ok
       THEN /\ conv' = [conv EXCEPT !.via = stage]
            /\ audio_array' = Decode(stage, pcm)
            /\ pc' = "postdecode"
            /\ UNCHANGED stageErrors
       ELSE /\ stageErrors' = Append(stageErrors, [stage |-> stage, err |-> "decode"])
            /\ pc' = StagePc(NextStrategy(stage))
            /\ UNCHANGED <<conv, audio_array>>
  /\ UNCHANGED <<pcm, wav, regVars, inputVars, subprocessRuns, created, tmpFiles, ffPending,
                 sweepVars, httpVars, result>>

\* sf.read(audio_stream)
TrySoundfile == TryDecoder("soundfile")

\* librosa.load(audio_stream, sr=None, mono=False)
TryLibrosa == TryDecoder("librosa")

\* mono mix, int16 scaling and wav_bytes_from_array after stage 1 or 2
PostDecode ==
  /\ pc = "postdecode"
  /\ audio_array' = ToMono(audio_array)
  /\ wav' = WavSamples(ToMono(audio_array))
  /\ conv' = [conv EXCEPT !.state = "ok"]
  /\ pc' = "conv_ok"
  /\ UNCHANGED <<pcm, regVars, inputVars, invoked, stageErrors, subprocessRuns, created, tmpFiles,
                 ffPending, sweepVars, httpVars, result>>

\* "except Exception as e3": every strategy has raised, RuntimeError names e1, e2, e3
Exhausted(e3) ==
  LET errs == Append(stageErrors, [stage |-> "ffmpeg", err |-> e3]) IN
  /\ stageErrors' = errs
  /\ conv' = [conv EXCEPT !.state = "failed", !.kind = "AllStrategiesFailed",
                          !.reported = [i \in 1..Len(errs) |-> errs[i].stage]]
  /\ pc' = "conv_failed"

\* ------------------------------------------------------------ _convert_with_ffmpeg

\* How subprocess.run(['ffmpeg', ...], timeout=30) ends: exit code 0, a non-zero
\* exit code, TimeoutExpired, or an exception starting the process.
\* ffmpeg never exits 0 on a zero-length input.
SubprocessOutcomes(a) ==
  IF a = "empty" THEN { "nonzero", "timeout", "spawn" }
  ELSE { "ok", "nonzero", "timeout", "spawn" }

\* os.unlink(path) inside "try: ... except Exception: pass"
Unlink(files, f) == files \ { f }

\* NamedTemporaryFile(delete=False, suffix='.tmp'): the input file is created, or that raises
FfmpegCreateInput ==
  /\ pc = "ff_input"
  /\ invoked' = Append(invoked, "ffmpeg")
  /\ \E ok \in BOOLEAN :
       IF ok
       THEN /\ created' = created \cup { "input" }
            /\ tmpFiles' = tmpFiles \cup { "input" }
            /\ pc' = "ff_write"
            /\ UNCHANGED <<stageErrors, conv>>
       ELSE /\ Exhausted("create_input")
            /\ UNCHANGED <<created, tmpFiles>>
  /\ UNCHANGED <<pcmVars, regVars, inputVars, subprocessRuns, ffPending, sweepVars, httpVars, result>>

\* input_file.write(audio_bytes) and the end of the first with block; a failing
\* write leaves the with block by the exception, before the try/finally is entered
FfmpegWriteInput ==
  /\ pc = "ff_write"
  /\ \E ok \in BOOLEAN :
       IF ok
       THEN /\ pc' = "ff_output"
            /\ UNCHANGED <<stageErrors, conv>>
       ELSE Exhausted("write_input")
  /\ UNCHANGED <<pcmVars, regVars, inputVars, invoked, subprocessRuns, created, tmpFiles, ffPending,
                 sweepVars, httpVars, result>>

\* NamedTemporaryFile(delete=False, suffix='.wav'): the output file is created, or
\* that raises, again before the try/finally
FfmpegCreateOutput ==
  /\ pc = "ff_output"
  /\ \E ok \in BOOLEAN :
       IF ok
       THEN /\ created' = created \cup { "output" }
            /\ tmpFiles' = tmpFiles \cup { "output" }
            /\ pc' = "ff_run"
            /\ UNCHANGED <<stageErrors, conv>>
       ELSE /\ Exhausted("create_output")
            /\ UNCHANGED <<created, tmpFiles>>
  /\ UNCHANGED <<pcmVars, regVars, inputVars, invoked, subprocessRuns, ffPending, sweepVars, httpVars, result>>

\* try: subprocess.run(...); a non-zero return code raises RuntimeError
FfmpegRun ==
  /\ pc = "ff_run"
  /\ subprocessRuns' = subprocessRuns + 1
  /\ \E o \in SubprocessOutcomes(audio) :
       IF o = "ok"
       THEN /\ pc' = "ff_read"
            /\ UNCHANGED ffPending
       ELSE /\ ffPending' = o
            /\ pc' = "ff_finally"
  /\ UNCHANGED <<pcmVars, regVars, inputVars, invoked, stageErrors, created, tmpFiles, conv,
                 sweepVars, httpVars, result>>

\* open(output_path, 'rb').read(), which may raise
FfmpegRead ==
  /\ pc = "ff_read"
  /\ \E ok \in BOOLEAN : ffPending' = IF ok THEN "ok" ELSE "read"
  /\ pc' = "ff_finally"
  /\ UNCHANGED <<pcmVars, regVars, inputVars, invoked, stageErrors, subprocessRuns, created, tmpFiles, conv,
                 sweepVars, httpVars, result>>

\* finally: both files are unlinked, then the WAV bytes are returned or the
\* pending exception propagates to convert_to_wav_bytes
FfmpegFinally ==
  /\ pc = "ff_finally"
  /\ tmpFiles' = Unlink(Unlink(tmpFiles, "input"), "output")
  /\ IF ffPending = "ok"
     THEN /\ conv' = [conv EXCEPT !.state = "ok", !.via = "ffmpeg"]
          /\ pc' = "conv_ok"
          /\ UNCHANGED stageErrors
     ELSE Exhausted(ffPending)
  /\ UNCHANGED <<pcmVars, regVars, inputVars, invoked, subprocessRuns, created, ffPending,
                 sweepVars, httpVars, result>>

\* the adapter's "except Exception as e: raise Exception('Audio format conversion failed')"
ConversionFailed ==
  /\ pc = "conv_failed"
  /\ result' = [Raised("AudioConversionFailed", FALSE) EXCEPT !.stages = conv.reported]
  /\ pc' = "done"
  /\ UNCHANGED <<pcmVars, regVars, inputVars, convVars, sweepVars, httpVars>>

\* ------------------------------------------------------------ HTTP

\* One multipart POST: its URL, its "task" form field ("" when none is sent), its
\* language field (None when none is sent) and what its audio part holds
Request(url, taskField, lang, audioPart) ==
  [url |-> url, task |-> taskField, lang |-> lang, audio |-> audioPart]

\* What requests reads from the io.BytesIO handed to it as the file part: the
\* content from the stream's position, which is the end after a first read
StreamRead(atEnd, content) == IF atEnd THEN "nothing" ELSE content

\* How requests.post ends: a response, or an exception (connection error, timeout).
\* The body of a 200 answer is drawn when it is decoded.
PostOutcomes ==
  { [exc |-> TRUE, resp |-> NoResponse] }
  \cup { [exc |-> FALSE, resp |-> [status |-> s, text |-> b]] :
           s \in Statuses \ { 200 }, b \in ErrorBodies }
  \cup { [exc |-> FALSE, resp |-> [status |-> 200, text |-> ""]] }

\* "API request failed with status {status_code}: {text}"
ApiRequestFailed(status, text) ==
  [Raised("ApiRequestFailed", TRUE) EXCEPT !.status = status, !.body = text]

\* PostOnce that leaves the call where it is after a failed request, to post again
PostOnce_Retry(req) ==
  /\ sent' = Append(sent, req)
  /\ streamAtEnd' = TRUE
  /\ UNCHANGED body
  /\ \E o \in PostOutcomes :
       IF ~o.exc /\ o.resp.status = 200
       THEN /\ response' = o.resp
            /\ pc' = "parse"
            /\ UNCHANGED result
       ELSE /\ response' = o.resp
            /\ UNCHANGED <<pc, result>>

\* The single POST of the three one-request adapters and what a failure raises:
\* OmniLingual and Chunkformer raise on any status but 200, WhisperJAX through
\* response.raise_for_status() (every status of Statuses but 200 is 4xx or 5xx)
PostOnce(req) ==
  /\ sent' = Append(sent, req)
  /\ streamAtEnd' = TRUE
  /\ UNCHANGED body
  /\ \E o \in PostOutcomes :
       IF o.exc
       THEN /\ result' = Raised("RequestException", TRUE)
            /\ pc' = "done"
            /\ UNCHANGED response
       ELSE /\ response' = o.resp
            /\ IF o.resp.status = 200
               THEN /\ pc' = "parse"
                    /\ UNCHANGED result
               ELSE /\ result' = IF adapter = "WhisperJAXModel"
                                 THEN [Raised("HTTPError", TRUE) EXCEPT !.status = o.resp.status]
                                 ELSE ApiRequestFailed(o.resp.status, o.resp.text)
                    /\ pc' = "done"

\* form_data["task"] of WhisperJAXModel.transcribe
WhisperTaskField(t) == t

\* WhisperJAXModel.transcribe: the form with task and, if given, language, and
\* the audio bytes as they came
WhisperJAXPost ==
  /\ pc = "call"
  /\ adapter = "WhisperJAXModel"
  /\ PostOnce(Request(endpoint, WhisperTaskField(task),
                      IF Truthy(language) THEN language ELSE None,
                      StreamRead(FALSE, "raw")))
  /\ UNCHANGED <<pcmVars, regVars, inputVars, convVars, sweepVars>>

\* data["lang_code"] of OmniLingualAPIModel.transcribe
OmniLangCode(lang) ==
  IF Truthy(lang) THEN lang
  ELSE Some(<<"e", "n", "g", "_", "L", "a", "t", "n">>)

\* OmniLingualAPIModel.transcribe: posts audio_bytes as they came, with lang_code
OmniLingualPost ==
  /\ pc = "call"
  /\ adapter = "OmniLingualAPIModel"
  /\ SupportsTask(adapter, task)
  /\ PostOnce(Request(endpoint, "", OmniLangCode(language), StreamRead(FALSE, "raw")))
  /\ UNCHANGED <<pcmVars, regVars, inputVars, convVars, sweepVars>>

\* ChunkformerModel.transcribe after the conversion: posts the WAV bytes, no language
ChunkformerPost ==
  /\ pc = "conv_ok"
  /\ adapter = "ChunkformerModel"
  /\ PostOnce(Request(endpoint, "", None, StreamRead(streamAtEnd, "wav")))
  /\ UNCHANGED <<pcmVars, regVars, inputVars, convVars, sweepVars>>

\* ------------------------------------------------------------ Qwen3Model: the sweep

\* RetryableStatuses with 500 taken for a retryable status
RetryableStatuses_With500 == { 400, 404, 405, 422, 500 }

\* "if response.status_code in {400, 404, 405, 422}"
RetryableStatuses == { 400, 404, 405, 422 }

\* StatusAction without the break on 200
StatusAction_NoBreak(status) ==
  IF status \in { 200, 400, 404, 405, 422 } THEN "continue" ELSE "raise"

\* What the inner loop does with a response: break on 200, record and continue
\* on a retryable status, raise on any other
StatusAction(status) ==
  IF status = 200 THEN "break"
  ELSE IF status \in RetryableStatuses THEN "continue"
  ELSE "raise"

\* RecordError that keeps the first recorded body
RecordError_KeepFirst(previous, text) ==
  IF previous.some THEN previous ELSE [some |-> TRUE, text |-> text]

\* RecordError that records nothing
RecordError_Skip(previous, text) == previous

\* "last_error = response.text"
RecordError(previous, text) == [some |-> TRUE, text |-> text]

\* NextIndices with the inner loop not restarted for the next language
NextIndices_NoRestart(l, u, nU) == IF u < nU THEN <<l, u + 1>> ELSE <<l + 1, u>>

\* The loop indices after pair (l, u) was answered with a retryable status:
\* "for lang_code in all_langs: for url in candidates"
NextIndices(l, u, nU) == IF u < nU THEN <<l, u + 1>> ELSE <<l + 1, 1>>

\* Everything before the loops: candidate_lang_codes, the endpoint candidates,
\* response = None, last_error = None
Qwen3Setup ==
  /\ pc = "conv_ok"
  /\ adapter = "Qwen3Model"
  /\ lang_candidates' = candidate_lang_codes(language)
  /\ candidates' = EndpointCandidates(endpoint)
  /\ li' = 1
  /\ ui' = 1
  /\ last_error' = NoError
  /\ pc' = IF EndpointCandidates(endpoint) = <<>> THEN "swept" ELSE "sweep"
  /\ UNCHANGED <<pcmVars, regVars, inputVars, convVars, httpVars, result>>

\* One pass of the inner loop body: the POST for the current pair and the
\* branch on its status
Qwen3Post ==
  /\ pc = "sweep"
  /\ LET lang_code == all_langs(lang_candidates)[li]
         req == Request(candidates[ui], "", lang_code, StreamRead(streamAtEnd, "wav"))
     IN /\ sent' = Append(sent, req)
        /\ streamAtEnd' = TRUE
        /\ UNCHANGED body
        /\ \E o \in PostOutcomes :
             IF o.exc
             THEN /\ result' = Raised("RequestException", TRUE)
                  /\ pc' = "done"
                  /\ UNCHANGED <<response, last_error, li, ui>>
             ELSE /\ response' = o.resp
                  /\ CASE StatusAction(o.resp.status) = "break" ->
                            /\ pc' = "swept"
                            /\ UNCHANGED <<result, last_error, li, ui>>
                       [] StatusAction(o.resp.status) = "continue" ->
                            LET next == NextIndices(li, ui, Len(candidates)) IN
                            /\ last_error' = RecordError(last_error, o.resp.text)
                            /\ li' = next[1]
                            /\ ui' = next[2]
                            /\ pc' = IF next[1] > Len(all_langs(lang_candidates))
                                     THEN "swept" ELSE "sweep"
                            /\ UNCHANGED result
                       [] OTHER ->
                            /\ result' = ApiRequestFailed(o.resp.status, o.resp.text)
                            /\ pc' = "done"
                            /\ UNCHANGED <<last_error, li, ui>>
  /\ UNCHANGED <<pcmVars, regVars, inputVars, convVars, lang_candidates, candidates>>

\* The body reported when the sweep ended without a 200
SweepErrorBody(lastError, resp) == IF lastError.some THEN lastError.text ELSE resp.text

\* After the loops: no response at all, a last response that is no 200, or the 200
Qwen3Finish ==
  /\ pc = "swept"
  /\ IF response = NoResponse
     THEN /\ result' = Raised("NoEndpointConfigured", TRUE)
          /\ pc' = "done"
     ELSE IF response.status # 200
     THEN /\ result' = ApiRequestFailed(response.status, SweepErrorBody(last_error, response))
          /\ pc' = "done"
     ELSE /\ pc' = "parse"
          /\ UNCHANGED result
  /\ UNCHANGED <<pcmVars, regVars, inputVars, convVars, sweepVars, httpVars>>

\* ------------------------------------------------------------ response parsing

\* "key in result"
HasKey(obj, k) == \E i \in 1..Len(obj) : obj[i].key = k

\* result[key]
Get(obj, k) == obj[CHOOSE i \in 1..Len(obj) : obj[i].key = k].val

\* "isinstance(value, str) and len(value) > 0"
NonEmptyString(v) == v.t = "str" /\ v.s # <<>>

\* "for key, value in result.items()": the first non-empty string value
FirstString(obj) ==
  LET hits == { i \in 1..Len(obj) : NonEmptyString(obj[i].val) } IN
  obj[CHOOSE i \in hits : \A j \in hits : i <= j].val

\* x.strip() of a JSON value: AttributeError unless it is a string
StripValue(v) ==
  IF v.t = "str" THEN Returned(Strip(v.s)) ELSE Raised("AttributeError", TRUE)

\* response.json() raises on text that is no JSON; a str has no keys(), items() or get()
NotADict(b) == IF b.kind = "not_json" THEN Raised("JSONDecodeError", TRUE) ELSE Raised("AttributeError", TRUE)

\* ExtractText without the scan of the other fields
ExtractText_TextOnly(b) ==
  IF b.kind # "object" THEN NotADict(b)
  ELSE IF HasKey(b.obj, "text") THEN StripValue(Get(b.obj, "text"))
  ELSE [Raised("NoTextField", TRUE) EXCEPT !.json = b]

\* OmniLingualAPIModel and Qwen3Model: result = response.json(); the "text"
\* field, else the first non-empty string field, else "No text field found"
ExtractText(b) ==
  IF b.kind # "object" THEN NotADict(b)
  ELSE IF HasKey(b.obj, "text") THEN StripValue(Get(b.obj, "text"))
  ELSE IF \E i \in 1..Len(b.obj) : NonEmptyString(b.obj[i].val)
  THEN StripValue(FirstString(b.obj))
  ELSE [Raised("NoTextField", TRUE) EXCEPT !.json = b]

\* 'Unknown error', the default of result.get('message', ...)
UnknownError == <<"U", "n", "k", "n", "o", "w", "n", " ", "e", "r", "r", "o", "r">>

\* A value inside an f-string: a string as it is, the number as its digit
Format(v) == IF v.t = "str" THEN v.s ELSE <<"7">>

\* ChunkformerExtract that looks at the status only when there is no text
ChunkformerExtract_TextFirst(b) ==
  IF b.kind # "object" THEN NotADict(b)
  ELSE IF HasKey(b.obj, "text") THEN StripValue(Get(b.obj, "text"))
  ELSE IF HasKey(b.obj, "status") /\ Get(b.obj, "status") = StrVal(<<"e", "r", "r", "o", "r">>)
  THEN [Raised("ApiError", TRUE) EXCEPT
          !.text = IF HasKey(b.obj, "message")
                   THEN Format(Get(b.obj, "message")) ELSE UnknownError]
  ELSE Returned(Strip(<<>>))

\* ChunkformerModel: an "error" status raises "API error: {message}", else
\* result.get('text', '').strip()
ChunkformerExtract(b) ==
  IF b.kind # "object" THEN NotADict(b)
  ELSE IF HasKey(b.obj, "status") /\ Get(b.obj, "status") = StrVal(<<"e", "r", "r", "o", "r">>)
  THEN [Raised("ApiError", TRUE) EXCEPT
          !.text = IF HasKey(b.obj, "message")
                   THEN Format(Get(b.obj, "message")) ELSE UnknownError]
  ELSE IF HasKey(b.obj, "text") THEN StripValue(Get(b.obj, "text"))
  ELSE Returned(Strip(<<>>))

\* WhisperJAXModel: (result.get("text") or "").strip() of a dict, str(result) of
\* anything else
WhisperExtract(b) ==
  IF b.kind = "not_json" THEN Raised("JSONDecodeError", TRUE)
  ELSE IF b.kind = "string" THEN Returned(b.str)
  ELSE IF HasKey(b.obj, "text") /\ Get(b.obj, "text") # StrVal(<<>>)
  THEN StripValue(Get(b.obj, "text"))
  ELSE Returned(Strip(<<>>))

\* The parser of each adapter
Extract(a, b) ==
  CASE a = "WhisperJAXModel" -> WhisperExtract(b)
    [] a = "ChunkformerModel" -> ChunkformerExtract(b)
    [] OTHER -> ExtractText(b)

\* The 200 response is decoded and the text extracted, or that raises
ParseResponse ==
  /\ pc = "parse"
  /\ \E b \in Bodies :
       /\ body' = b
       /\ result' = Extract(adapter, b)
  /\ pc' = "done"
  /\ UNCHANGED <<pcmVars, regVars, inputVars, convVars, sweepVars, streamAtEnd, sent, response>>

\* ------------------------------------------------------------ specification

Next ==
  \/ RejectTask
  \/ BeginConvert
  \/ TrySoundfile
  \/ TryLibrosa
  \/ PostDecode
  \/ FfmpegCreateInput
  \/ FfmpegWriteInput
  \/ FfmpegCreateOutput
  \/ FfmpegRun
  \/ FfmpegRead
  \/ FfmpegFinally
  \/ ConversionFailed
  \/ WhisperJAXPost
  \/ OmniLingualPost
  \/ ChunkformerPost
  \/ Qwen3Setup
  \/ Qwen3Post
  \/ Qwen3Finish
  \/ ParseResponse

Spec == Init /\ [][Next]_vars

\* ------------------------------------------------------------ claims: the sweep

\* The language and endpoint lists of the running Qwen3Model call
SweepLangs == all_langs(candidate_lang_codes(language))
SweepUrls == EndpointCandidates(endpoint)
\* the number of (language, endpoint) pairs
SweepPairs == Len(SweepLangs) * Len(SweepUrls)
\* the k-th pair, language outer and endpoint inner
PairLang(k) == SweepLangs[((k - 1) \div Len(SweepUrls)) + 1]
PairUrl(k) == SweepUrls[((k - 1) % Len(SweepUrls)) + 1]

IsQwen == adapter = "Qwen3Model"

\* C1: in Qwen3Model.transcribe, once a request has returned HTTP 200 no later
\* request is sent, and text is returned only from a 200 response, as the text
\* extracted from that response's body.
C1_StopOnFirst200 ==
  /\ [][(IsQwen /\ response.status = 200) => sent' = sent]_vars
  /\ [](IsQwen /\ result.ok =>
          /\ response.status = 200
          /\ body.kind = "object"
          /\ \E i \in 1..Len(body.obj) :
               /\ body.obj[i].val.t = "str"
               /\ result.text = Strip(body.obj[i].val.s))

\* C1 witness: a 200 came after an earlier request and before the candidates ran out
C1_Witness ==
  /\ IsQwen /\ pc = "done" /\ result.ok
  /\ Len(sent) >= 2 /\ Len(sent) < SweepPairs

\* C2: the k-th request of a sweep goes to the k-th (language, endpoint) pair in
\* language-outer, endpoint-inner order; after a 400/404/405/422 answer with pairs
\* left the next request is the next pair's; no pair is requested twice; at most
\* (languages or 1) x (endpoints) requests are sent.
C2_DeclaredOrder ==
  IsQwen =>
    /\ Len(sent) <= SweepPairs
    /\ \A k \in 1..Len(sent) : sent[k].url = PairUrl(k) /\ sent[k].lang = PairLang(k)
    /\ \A j, k \in 1..Len(sent) :
         j # k => <<sent[j].url, sent[j].lang>> # <<sent[k].url, sent[k].lang>>
    /\ (/\ response.status \in { 400, 404, 405, 422 }
        /\ result = NoResult
        /\ Len(sent) < SweepPairs)
       => /\ pc = "sweep"
          /\ candidates[ui] = PairUrl(Len(sent) + 1)
          /\ all_langs(lang_candidates)[li] = PairLang(Len(sent) + 1)

\* C2 witness: two retryable answers, then a 200 on the third request, whose text is returned
C2_Witness ==
  /\ IsQwen /\ pc = "done" /\ result.ok
  /\ Len(sent) = 3 /\ response.status = 200 /\ last_error.some

\* C3: a status that is neither 200 nor 400/404/405/422 ends the sweep at once:
\* the call is over, it raised with that response's status code and body, and
\* no request follows.
C3_AbortOnOtherStatus ==
  /\ [](IsQwen /\ response.status \notin { 0, 200, 400, 404, 405, 422 } =>
          /\ pc = "done"
          /\ ~result.ok
          /\ result.status = response.status
          /\ result.body = response.text)
  /\ [][(IsQwen /\ response.status \notin { 0, 200, 400, 404, 405, 422 }) => sent' = sent]_vars

\* C3 witness: a 500 on a later request with candidates left untried
C3_Witness ==
  /\ IsQwen /\ pc = "done" /\ response.status = 500
  /\ Len(sent) >= 2 /\ Len(sent) < SweepPairs

\* The sweep ran through every pair and the call is over, no request having
\* raised a transport error
SweepRanOut ==
  /\ IsQwen /\ pc = "done" /\ conv.state = "ok"
  /\ Len(sent) = SweepPairs
  /\ result.kind # "RequestException"
  /\ response.status # 200

\* C4 as claimed: when every pair has been tried and none returned 200,
\* transcribe fails and the error carries the last recorded 400/404/405/422 body
\* if one was recorded, else the last response's body.
C4_LastRecordedAlways ==
  SweepRanOut =>
    /\ ~result.ok
    /\ result.body = IF last_error.some THEN last_error.text ELSE response.text

\* C4 amended: when every pair has been tried and each answered 400, 404, 405 or
\* 422, transcribe fails and the error carries the status and body of the last
\* response, which is the last recorded body; with no endpoint candidate it fails
\* with "No endpoint configured". (A last pair answered by another status aborts
\* with that response's own body, whatever was recorded before.)
C4_LastRecordedAfterFullSweep ==
  (SweepRanOut /\ response.status \in { 0, 400, 404, 405, 422 }) =>
    /\ ~result.ok
    /\ IF sent = <<>>
       THEN result.kind = "NoEndpointConfigured"
       ELSE /\ result.kind = "ApiRequestFailed"
            /\ result.status = response.status
            /\ result.body = response.text
            /\ last_error = [some |-> TRUE, text |-> response.text]

\* C4 witness: a full sweep of several pairs, every one answered by a client error
C4_Witness ==
  /\ SweepRanOut /\ Len(sent) >= 4
  /\ response.status \in { 400, 404, 405, 422 }
  /\ result.kind = "ApiRequestFailed"

\* ------------------------------------------------------------ claims: the normaliser

\* the order of the decode strategies
DecodeOrder == <<"soundfile", "librosa", "ffmpeg">>

\* Strategies are invoked in the fixed order, each only after every earlier one
\* raised, and a strategy that succeeds ends the chain
ChainInOrder ==
  /\ Len(invoked) <= Len(DecodeOrder)
  /\ \A i \in 1..Len(invoked) : invoked[i] = DecodeOrder[i]
  /\ Len(stageErrors) <= Len(invoked)
  /\ Len(invoked) <= Len(stageErrors) + 1
  /\ \A i \in 1..Len(stageErrors) : stageErrors[i].stage = invoked[i]
  /\ conv.via # "" =>
       /\ conv.via = invoked[Len(invoked)]
       /\ Len(stageErrors) = Len(invoked) - 1

\* C5 as claimed: the strategies run in the order soundfile, librosa, ffmpeg, each
\* only after the earlier ones raised, success ends the chain, and
\* convert_to_wav_bytes fails only after all three failed, reporting the three errors.
C5_FailsOnlyAfterAllThree ==
  /\ ChainInOrder
  /\ conv.state = "failed" =>
       /\ invoked = DecodeOrder
       /\ conv.reported = DecodeOrder

\* C5 amended: as claimed, except that convert_to_wav_bytes also fails at once,
\* before any strategy is invoked, when soundfile or librosa could not be imported;
\* with both imported it fails only after all three strategies failed, and that
\* failure reports the error of each of the three.
C5_FailsAfterAllThreeOrImportGuard ==
  /\ ChainInOrder
  /\ conv.state = "failed" =>
       \/ /\ ~libs
          /\ conv.kind = "DepsMissing"
          /\ invoked = <<>>
       \/ /\ libs
          /\ conv.kind = "AllStrategiesFailed"
          /\ invoked = DecodeOrder
          /\ conv.reported = DecodeOrder
          /\ Len(stageErrors) = 3

\* C5 witness: all three strategies were invoked and failed, on input that is not empty
C5_Witness ==
  /\ audio = "data" /\ conv.state = "failed"
  /\ conv.kind = "AllStrategiesFailed" /\ invoked = DecodeOrder

\* C6: zero-length input fails as EmptyAudio before any decode strategy is
\* invoked: no decoder call, no subprocess, no temporary file (stated for a
\* process in which soundfile and librosa were imported).
C6_EmptyInputFailsFast ==
  (audio = "empty" /\ adapter \in ConvertingAdapters /\ libs) =>
    /\ invoked = <<>>
    /\ subprocessRuns = 0
    /\ created = {}
    /\ conv.state = "failed" => conv.kind = "EmptyAudio"

\* _convert_with_ffmpeg has returned or raised
FfmpegLeft == pc \notin { "ff_input", "ff_write", "ff_output", "ff_run", "ff_read", "ff_finally" }

\* C7: on every exit path of _convert_with_ffmpeg no temporary file the call
\* created exists any more.
C7_TempFilesRemoved ==
  FfmpegLeft => created \cap tmpFiles = {}

\* ------------------------------------------------------------ claims: the adapters

TranscribeOnlyAdapters == { "ChunkformerModel", "OmniLingualAPIModel", "Qwen3Model" }

\* C8: Chunkformer, OmniLingual and Qwen3 reject every task but "transcribe" with
\* an unsupported-task error before any audio conversion and before any request;
\* WhisperJAX forwards the task unchanged as the "task" form field.
C8_TaskNeverIgnored ==
  /\ (adapter \in TranscribeOnlyAdapters /\ task # "transcribe") =>
       /\ sent = <<>>
       /\ invoked = <<>>
       /\ conv = NoConv
       /\ pc \in { "call", "done" }
       /\ pc = "done" => (~result.ok /\ result.kind = "UnsupportedTask")
  /\ adapter = "WhisperJAXModel" =>
       /\ Len(sent) <= 1
       /\ pc # "call" => Len(sent) = 1
       /\ \A k \in 1..Len(sent) : sent[k].task = task

\* C8 witness: a translate call on Chunkformer has ended
C8_Witness ==
  adapter = "ChunkformerModel" /\ task = "translate" /\ pc = "done"

\* The call ended after a 200 response whose body is a JSON object
ParsedObject == pc = "done" /\ response.status = 200 /\ body.kind = "object"

\* C9: for Chunkformer, OmniLingual and Qwen3, on a 200 JSON object: the "text"
\* value (a string, trimmed) is the result if the key is present; otherwise the
\* first non-empty string value in key order; otherwise a malformed-response
\* error that carries the decoded body.
C9_SharedParsingPolicy ==
  (adapter \in TranscribeOnlyAdapters /\ ParsedObject) =>
    IF HasKey(body.obj, "text")
    THEN Get(body.obj, "text").t = "str" =>
           (result.ok /\ result.text = Strip(Get(body.obj, "text").s))
    ELSE IF \E i \in 1..Len(body.obj) : NonEmptyString(body.obj[i].val)
    THEN result.ok /\ result.text = Strip(FirstString(body.obj).s)
    ELSE ~result.ok /\ result.kind = "NoTextField" /\ result.json = body

\* the JSON body {"status": "ok"}
StatusOkBody ==
  [kind |-> "object", obj |-> <<[key |-> "status", val |-> StrVal(<<"o", "k">>)]>>, str |-> <<>>]

JsonScanAdapters == { "OmniLingualAPIModel", "Qwen3Model" }

\* C10 as claimed: a 200 response with body {"status":"ok"} makes OmniLingual and
\* Qwen3 fail with a malformed-response error.
C10_StatusOkIsMalformed ==
  (adapter \in JsonScanAdapters /\ pc = "done" /\ body = StatusOkBody) =>
    (~result.ok /\ result.kind = "NoTextField")

\* C10 amended: a 200 response with body {"status":"ok"} makes OmniLingual and
\* Qwen3 return "ok", the first non-empty string value; they fail with a
\* malformed-response error exactly when the body has no "text" key and no
\* non-empty string value.
C10_StatusOkIsReturned ==
  /\ (adapter \in JsonScanAdapters /\ pc = "done" /\ body = StatusOkBody) =>
       (result.ok /\ result.text = <<"o", "k">>)
  /\ (adapter \in JsonScanAdapters /\ ParsedObject) =>
       (result.kind = "NoTextField" <=>
          /\ \A i \in 1..Len(body.obj) : body.obj[i].key # "text"
          /\ \A i \in 1..Len(body.obj) :
               body.obj[i].val.t # "str" \/ body.obj[i].val.s = <<>>)

\* C10 witness: OmniLingual has parsed {"status":"ok"}
C10_Witness ==
  adapter = "OmniLingualAPIModel" /\ pc = "done" /\ body = StatusOkBody

\* ------------------------------------------------------------ C11

\* C11: the lang_code sent by OmniLingualAPIModel (the adapter that maps dialect
\* codes) is the normalized form of the language it was given: "en" goes out as
\* "eng", "vie_Latn" as "vie"
C11_OmniSendsNormalizedCode ==
  (adapter = "OmniLingualAPIModel" /\ Truthy(language))
    => \A k \in 1..Len(sent) : sent[k].lang = normalize_lang_code(language)

\* ------------------------------------------------------------ model registry and cache

\* The environment variable get_model_for_request reads the endpoint of a name from
EndpointVar(name) ==
  CASE name = "whisper_jax" -> "WHISPER_ENDPOINT"
    [] name = "omni_lingual" -> "OMNILINGUAL_ENDPOINT"
    [] name = "chunkformer" -> "CHUNKFORMER_ENDPOINT"
    [] name = "qwen3_1_7B" -> "QWEN3_1_7B_ENDPOINT"
    [] OTHER -> "QWEN3_0_6B_ENDPOINT"

\* The object model_class(**kwargs) returns: its class, the endpoint it was given,
\* and which construction for that name it is (two constructor calls return two
\* objects)
Instance(name, serial) ==
  [class |-> MODEL_REGISTRY[name], name |-> name, endpoint |-> EndpointVar(name), serial |-> serial]

\* ValueError(f"Model '{model_name}' not found. Available models: {available}")
UnknownModel(name) == [kind |-> "ValueError", model |-> name, available |-> RegistryNames]
\* an exception out of a constructor
ConstructorError(name) == [kind |-> "Exception", model |-> name, available |-> <<>>]

\* How model_class(**kwargs) ends: with an object, or with an exception (the
\* "except Exception" of the callers is written for it)
ConstructOutcomes == { "ok", "raise" }

\* get_model that falls back to the default model's class for an unknown name
get_model_FallbackDefault(model_name, serial, outcome) ==
  IF outcome = "raise"
  THEN [raised |-> TRUE, error |-> ConstructorError(model_name), model |-> NoModel]
  ELSE [raised |-> FALSE, error |-> NoException,
        model |-> Instance(IF model_name \in DOMAIN MODEL_REGISTRY THEN model_name
                           ELSE DEFAULT_MODEL, serial)]

\* get_model(model_name, **kwargs); serial numbers the object it constructs
get_model(model_name, serial, outcome) ==
  IF model_name \notin DOMAIN MODEL_REGISTRY
  THEN [raised |-> TRUE, error |-> UnknownModel(model_name), model |-> NoModel]
  ELSE IF outcome = "raise"
  THEN [raised |-> TRUE, error |-> ConstructorError(model_name), model |-> NoModel]
  ELSE [raised |-> FALSE, error |-> NoException, model |-> Instance(model_name, serial)]

\* CacheHit with the cache never consulted
CacheHit_Never(cache, name) == FALSE

\* "if model_name in model_cache"
CacheHit(cache, name) == name \in DOMAIN cache

\* StoreModel that stores nothing
StoreModel_Skip(cache, name, model) == cache

\* "model_cache[model_name] = model"
StoreModel(cache, name, model) == (name :> model) @@ cache

\* get_model_for_request(model_name) on cache and construction counts: what it
\* returns or raises, and the cache and counts it leaves
get_model_for_request(cache, built, model_name, outcome) ==
  IF CacheHit(cache, model_name)
  THEN [raised |-> FALSE, error |-> NoException, model |-> cache[model_name],
        cache |-> cache, built |-> built]
  ELSE LET serial == IF model_name \in DOMAIN built THEN built[model_name] + 1 ELSE 0
           g == get_model(model_name, serial, outcome)
       IN IF g.raised
          THEN [raised |-> TRUE, error |-> g.error, model |-> NoModel,
                cache |-> cache, built |-> built]
          ELSE [raised |-> FALSE, error |-> NoException, model |-> g.model,
                cache |-> StoreModel(cache, model_name, g.model),
                built |-> [built EXCEPT ![model_name] = @ + 1]]

\* get_model_info() of the four adapters: the keys of the dict and its "name"
get_model_info(model) ==
  CASE model.class = "WhisperJAXModel" ->
         [keys |-> { "name", "endpoint", "supported_languages", "tasks" },
          name |-> "Whisper JAX", endpoint |-> model.endpoint,
          status |-> "", error |-> NoException]
    [] model.class = "OmniLingualAPIModel" ->
         [keys |-> { "name", "endpoint", "supported_languages_count",
                     "supported_languages", "task", "provider" },
          name |-> "OmniLingual API", endpoint |-> model.endpoint,
          status |-> "", error |-> NoException]
    [] model.class = "ChunkformerModel" ->
         [keys |-> { "name", "model_id", "endpoint", "supported_languages", "task", "provider" },
          name |-> "Chunkformer Vietnamese ASR", endpoint |-> model.endpoint,
          status |-> "", error |-> NoException]
    [] OTHER ->
         [keys |-> { "name", "endpoint", "supported_languages_count",
                     "supported_languages", "task", "provider" },
          name |-> "Qwen3 ASR", endpoint |-> model.endpoint,
          status |-> "", error |-> NoException]

\* {"error": str(e), "status": "failed_to_load"}
FailedToLoad(e) ==
  [keys |-> { "error", "status" }, name |-> "", endpoint |-> "",
   status |-> "failed_to_load", error |-> e]

\* OnLoadError without the try/except inside the loop: the listing ends at the
\* first name that fails
OnLoadError_Propagates(info, name, e) == [stop |-> TRUE, info |-> info]

\* What one pass of list_models' loop leaves for a name whose lookup raised
OnLoadError(info, name, e) ==
  [stop |-> FALSE, info |-> Append(info, [key |-> name, val |-> FailedToLoad(e)])]

RECURSIVE ListFrom(_, _, _, _, _)
\* list_models' loop from the i-th registered name on: fails holds the names whose
\* constructor raises in this request
ListFrom(i, cache, built, info, fails) ==
  IF i > Len(RegistryNames) THEN [cache |-> cache, built |-> built, info |-> info]
  ELSE LET name == RegistryNames[i]
           g == get_model_for_request(cache, built, name,
                                      IF name \in fails THEN "raise" ELSE "ok")
       IN IF g.raised
          THEN LET h == OnLoadError(info, name, g.error) IN
               IF h.stop THEN [cache |-> g.cache, built |-> g.built, info |-> h.info]
               ELSE ListFrom(i + 1, g.cache, g.built, h.info, fails)
          ELSE ListFrom(i + 1, g.cache, g.built,
                        Append(info, [key |-> name, val |-> get_model_info(g.model)]), fails)

callVars == <<inputVars, pc, convVars, sweepVars, httpVars, result, pcmVars>>

\* GET /models: one entry per registered name, whatever fails
ListModels ==
  /\ \E fails \in SUBSET (Range(RegistryNames) \ DOMAIN model_cache) :
       LET l == ListFrom(1, model_cache, constructed, <<>>, fails) IN
       /\ model_cache' = l.cache
       /\ constructed' = l.built
       /\ reply' = [route |-> "/models", status |-> 200, detail |-> NoException,
                    models_info |-> l.info]
  /\ UNCHANGED <<reqs, callVars>>

\* GET /health/model: 503 when the default model cannot be resolved
HealthModel ==
  /\ \E outcome \in ConstructOutcomes :
       LET g == get_model_for_request(model_cache, constructed, DEFAULT_MODEL, outcome) IN
       /\ model_cache' = g.cache
       /\ constructed' = g.built
       /\ reply' = [route |-> "/health/model", status |-> IF g.raised THEN 503 ELSE 200,
                    detail |-> g.error, models_info |-> <<>>]
  /\ UNCHANGED <<reqs, callVars>>

\* How the handler's call of asr_model.transcribe ends
TranscribeOutcomes == { "text", "raise" }

\* HTTPException(status_code=503, detail=f"ASR model '{model}' not available: {str(e)}")
NotAvailable(route, e) == [route |-> route, status |-> 503, detail |-> e, models_info |-> <<>>]
\* any other answer of a transcribe route
Answer(route, status) == [route |-> route, status |-> status, detail |-> NoException, models_info |-> <<>>]

\* POST /transcribe/upload up to "await file.read()": the model is resolved,
\* with 503 when that raises. get_model_for_request is a plain function without
\* an await, so the event loop runs it in one piece.
UploadResolve(r) ==
  /\ reqs[r].pc = "idle"
  /\ \E name \in ModelNames, outcome \in ConstructOutcomes :
       LET g == get_model_for_request(model_cache, constructed, name, outcome) IN
       /\ model_cache' = g.cache
       /\ constructed' = g.built
       /\ IF g.raised
          THEN /\ reply' = NotAvailable("/transcribe/upload", g.error)
               /\ UNCHANGED reqs
          ELSE /\ reqs' = [reqs EXCEPT ![r] = [pc |-> "read", name |-> name, model |-> g.model]]
               /\ UNCHANGED reply
  /\ UNCHANGED callVars

\* POST /transcribe/upload from the resumption after "await file.read()" on:
\* 400 for an empty file, else transcribe and 200, or 500 when it raises
UploadTranscribe(r) ==
  /\ reqs[r].pc = "read"
  /\ \E contents \in AudioInputs, t \in TranscribeOutcomes :
       reply' = Answer("/transcribe/upload",
                       IF contents = "empty" THEN 400 ELSE IF t = "raise" THEN 500 ELSE 200)
  /\ reqs' = [reqs EXCEPT ![r] = IdleRequest]
  /\ UNCHANGED <<model_cache, constructed, callVars>>

\* POST /transcribe/record: no await in the handler; 503 when the model cannot
\* be resolved, 500 when recording or transcribe raises
TranscribeRecord ==
  /\ \E name \in ModelNames, outcome \in ConstructOutcomes, t \in TranscribeOutcomes :
       LET g == get_model_for_request(model_cache, constructed, name, outcome) IN
       /\ model_cache' = g.cache
       /\ constructed' = g.built
       /\ reply' = IF g.raised THEN NotAvailable("/transcribe/record", g.error)
                   ELSE Answer("/transcribe/record", IF t = "raise" THEN 500 ELSE 200)
  /\ UNCHANGED <<reqs, callVars>>

\* The API with no adapter call stepped: the registry, the cache and the routes
InitRegistry ==
  /\ Init
  /\ adapter = "WhisperJAXModel"
  /\ task = "transcribe"
  /\ language = None
  /\ audio = "data"
  /\ libs

NextRegistry ==
  \/ \E r \in Requesters : UploadResolve(r)
  \/ \E r \in Requesters : UploadTranscribe(r)
  \/ TranscribeRecord
  \/ ListModels
  \/ HealthModel

SpecRegistry == InitRegistry /\ [][NextRegistry]_vars

\* ------------------------------------------------------------ C12

TranscribeRoutes == { "/transcribe/upload", "/transcribe/record" }

\* a route has just answered that the model of the request is not available
AnswersNotAvailable == reply' # reply /\ reply'.status = 503

\* C12: a step that resolves a name outside MODEL_REGISTRY raises the ValueError
\* whose message lists every registered name, constructs nothing and leaves
\* model_cache as it was; no unknown name is ever cached or handed an adapter
C12_UnknownNameRejected ==
  /\ [][ (AnswersNotAvailable /\ reply'.detail.model \notin Range(RegistryNames))
           => /\ reply'.detail.kind = "ValueError"
              /\ \A n \in Range(RegistryNames) : n \in Range(reply'.detail.available)
              /\ constructed' = constructed
              /\ model_cache' = model_cache ]_vars
  /\ [][ \A r \in Requesters :
           (reqs[r].pc = "idle" /\ reqs'[r].pc = "read")
             => reqs'[r].name \in Range(RegistryNames) ]_vars
  /\ [](DOMAIN model_cache \subseteq Range(RegistryNames))

\* an unknown name was rejected while the cache held an adapter
C12_Witness ==
  /\ reply.status = 503
  /\ reply.detail = UnknownModel("whisper_large")
  /\ model_cache # <<>>

\* ------------------------------------------------------------ C13

\* this step constructs an adapter for name n
Constructs(n) == constructed'[n] > constructed[n]

\* C13: once model_cache holds an adapter for a name the entry is never replaced
\* or removed, no further adapter is constructed for that name, and every later
\* upload request for it is handed that same adapter
C13_CachedAdapterReused ==
  [][ \A n \in DOMAIN model_cache :
        /\ n \in DOMAIN model_cache'
        /\ model_cache'[n] = model_cache[n]
        /\ ~Constructs(n)
        /\ \A r \in Requesters :
             (reqs[r].pc = "idle" /\ reqs'[r].pc = "read" /\ reqs'[r].name = n)
               => reqs'[r].model = model_cache[n] ]_vars

\* a second upload request for a cached name is in flight next to the first: both
\* hold the one adapter that was constructed
C13_Witness ==
  /\ reqs["r1"].pc = "read"
  /\ reqs["r2"].pc = "read"
  /\ reqs["r1"].name = reqs["r2"].name
  /\ reqs["r1"].model = reqs["r2"].model
  /\ constructed[reqs["r1"].name] = 1

\* ------------------------------------------------------------ C14

\* the upload requests that resolved name n and have not answered yet
InFlight(n) == { r \in Requesters : reqs[r].pc = "read" /\ reqs[r].name = n }

\* C14: however the requests of the event loop interleave, the entry of a name in
\* model_cache is written at most once (one adapter is constructed for the name),
\* and all requests in flight for the name hold that one cached adapter
C14_EntryWrittenOnce ==
  \A n \in Range(RegistryNames) :
    /\ constructed[n] <= 1
    /\ (n \in DOMAIN model_cache) = (constructed[n] = 1)
    /\ \A r \in InFlight(n) : n \in DOMAIN model_cache /\ reqs[r].model = model_cache[n]

\* two first requests for "qwen3_1_7B" overlap: the second resolved the name while
\* the first was waiting for its file
C14_Witness ==
  /\ InFlight("qwen3_1_7B") = Requesters
  /\ constructed["qwen3_1_7B"] = 1
  /\ reply = NoReply

\* ------------------------------------------------------------ C17

\* {"error": ..., "status": "failed_to_load"}
ErrorShaped(entry) == entry.keys = { "error", "status" } /\ entry.status = "failed_to_load"

\* C17: GET /models always answers, with one entry per registered name in
\* registry order: the get_model_info() of the cached adapter, or an error-shaped
\* record for a name whose adapter could not be constructed
C17_ListingIsTotal ==
  reply.route = "/models"
    => /\ reply.status = 200
       /\ Len(reply.models_info) = Len(RegistryNames)
       /\ \A i \in 1..Len(RegistryNames) :
            LET e == reply.models_info[i] IN
            /\ e.key = RegistryNames[i]
            /\ \/ ErrorShaped(e.val) /\ e.val.error = ConstructorError(e.key)
               \/ /\ e.key \in DOMAIN model_cache
                  /\ e.val = get_model_info(model_cache[e.key])
                  /\ "name" \in e.val.keys

\* a listing in which the first name failed to load and the names after it were
\* still processed, one of them with its model info
C17_Witness ==
  /\ reply.route = "/models"
  /\ ErrorShaped(reply.models_info[1].val)
  /\ ~ErrorShaped(reply.models_info[3].val)
  /\ ErrorShaped(reply.models_info[5].val)

\* ------------------------------------------------------------ Qwen3Model: candidates

MaxLangLen == 3

\* the characters language codes are drawn from
LangAlphabet == { "e", "n", "E", "_", " " }

\* language arguments: absent, every string of up to MaxLangLen characters, and
\* "vi", "Vie", "fr", "en_US", "eng_Latn", "xx_Yyyy"
LangInputs ==
  { None }
  \cup { Some(s) : s \in UNION { [1..n -> LangAlphabet] : n \in 0..MaxLangLen } }
  \cup { Some(<<"v", "i">>), Some(<<"V", "i", "e">>), Some(<<"f", "r">>),
         Some(<<"e", "n", "_", "U", "S">>),
         Some(<<"e", "n", "g", "_", "L", "a", "t", "n">>),
         Some(<<"x", "x", "_", "Y", "y", "y", "y">>) }

\* self.endpoint: the constructor's default, blank, with and without a path or
\* a trailing slash, surrounded by whitespace, and the legacy proxy paths
EndpointInputs ==
  { <<"http://", "localhost", ":8005", "/", "asr">>,
    <<" ">>,
    <<"http://", "h">>,
    <<"http://", "h", "/">>,
    <<"http://", "h", "/", "asr", "/">>,
    <<" ", "http://", "h", "/", "asr", " ">>,
    <<"http://", "h", "/", "asr_q3_1_7B">>,
    <<"http://", "h", "/", "asr_q3_0_6B", "/">>,
    <<"http://", "h", ":8005", "/", "asr_q3_1_7B">>,
    <<"http://", "h", "/", "asr_q3_1_7B", "/", "asr_q3_0_6B">> }

\* Qwen3Model.transcribe at the point where the audio is converted, for every
\* language with the default endpoint and for every endpoint with two languages
InitCandidates ==
  /\ RegistryInit
  /\ pcm = StereoClip
  /\ audio_array = ToMono(sf_read(StereoClip))
  /\ wav = WavSamples(ToMono(sf_read(StereoClip)))
  /\ adapter = "Qwen3Model"
  /\ task = "transcribe"
  /\ audio = "data"
  /\ libs = TRUE
  /\ \/ language \in LangInputs /\ endpoint = <<"http://", "localhost", ":8005", "/", "asr">>
     \/ language \in { None, Some(<<"e", "n">>) } /\ endpoint \in EndpointInputs
  /\ pc = "conv_ok"
  /\ invoked = <<"soundfile">>
  /\ stageErrors = <<>>
  /\ subprocessRuns = 0
  /\ created = {}
  /\ tmpFiles = {}
  /\ ffPending = ""
  /\ conv = [NoConv EXCEPT !.state = "ok", !.via = "soundfile"]
  /\ streamAtEnd = FALSE
  /\ lang_candidates = <<>>
  /\ candidates = <<>>
  /\ li = 1
  /\ ui = 1
  /\ sent = <<>>
  /\ response = NoResponse
  /\ last_error = NoError
  /\ body = NoBody
  /\ result = NoResult

\* candidate_lang_codes, the endpoint candidates and the sweep over them
NextCandidates ==
  \/ Qwen3Setup
  \/ Qwen3Post
  \/ Qwen3Finish

SpecCandidates == InitCandidates /\ [][NextCandidates]_vars

\* ------------------------------------------------------------ C15

\* the setup before the loops has run
SetupDone == adapter = "Qwen3Model" /\ pc \in { "sweep", "swept", "parse", "done" }

NoDuplicates(list) == \A i, j \in 1..Len(list) : i # j => list[i] # list[j]

\* the language is absent, or empty or whitespace only
AbsentOrBlank(lang) == ~lang.some \/ Strip(lang.s) = <<>>

\* C15: lang_candidates is the normalized code followed, if the lower-cased
\* normalized code is in name_map, by the English name it maps to, without
\* duplicates; it is empty for an absent or blank language, and with no candidate
\* the sweep is one pass over the endpoints whose requests carry no lang_code
C15_LanguageCandidates ==
  SetupDone =>
    LET normalized == normalize_lang_code(language) IN
    /\ lang_candidates =
         IF ~Truthy(normalized) THEN <<>>
         ELSE <<normalized.s>>
              \o (IF Lower(normalized.s) \in DOMAIN name_map
                  THEN <<name_map[Lower(normalized.s)]>> ELSE <<>>)
    /\ NoDuplicates(lang_candidates)
    /\ AbsentOrBlank(language) => lang_candidates = <<>>
    /\ lang_candidates = <<>> =>
         /\ Len(sent) <= Len(candidates)
         /\ \A k \in 1..Len(sent) : sent[k].lang = None /\ sent[k].url = candidates[k]

\* " en" was swept to the end: one pass with "eng", then one with "English"
C15_Witness ==
  /\ SetupDone
  /\ language = Some(<<" ", "e", "n">>)
  /\ lang_candidates = << <<"e", "n", "g">>, <<"E", "n", "g", "l", "i", "s", "h">> >>
  /\ Len(sent) = 2 * Len(candidates)
  /\ sent[1].lang = Some(<<"e", "n", "g">>)
  /\ sent[Len(sent)].lang = Some(<<"E", "n", "g", "l", "i", "s", "h">>)

\* ------------------------------------------------------------ C16

\* the endpoint's path shows the legacy proxy segment seg
Legacy(ep, seg) == PathContains(UrlPath(ep), seg)

\* C16: the endpoint candidates are, in this order and without duplicates, the
\* configured endpoint, its base without trailing slashes followed by /asr,
\* /transcribe and /transcribe/upload, and for a legacy proxy path the direct
\* host:port base followed by /asr and /transcribe; the sweep starts with the
\* configured endpoint
C16_EndpointCandidates ==
  SetupDone =>
    LET ep == Strip(endpoint)
        base == RStripSlash(ep)
        direct(port) == <<DirectBase(ep, port) \o <<"/", "asr">>,
                          DirectBase(ep, port) \o <<"/", "transcribe">> >>
    IN /\ candidates =
            IF ep = <<>> THEN <<>>
            ELSE <<ep, base \o <<"/", "asr">>, base \o <<"/", "transcribe">>,
                   base \o <<"/", "transcribe", "/", "upload">> >>
                 \o (IF Legacy(ep, "asr_q3_1_7B") THEN direct(":8005") ELSE <<>>)
                 \o (IF Legacy(ep, "asr_q3_0_6B") THEN direct(":8006") ELSE <<>>)
       /\ NoDuplicates(candidates)
       /\ sent # <<>> => sent[1].url = ep

\* a legacy proxy endpoint with a trailing slash was swept through to its direct
\* host:port candidates
C16_Witness ==
  /\ SetupDone
  /\ endpoint = <<"http://", "h", "/", "asr_q3_0_6B", "/">>
  /\ Len(candidates) = 6
  /\ Len(sent) = 6
  /\ sent[6].url = <<"http://", "h", ":8006", "/", "transcribe">>

\* ------------------------------------------------------------ C19

\* s has neither leading nor trailing whitespace
Trimmed(s) == s = <<>> \/ (s[1] \notin Whitespace /\ s[Len(s)] \notin Whitespace)

\* the "text" field of the decoded body is a string that is empty or whitespace only
BlankText ==
  /\ body.kind = "object"
  /\ HasKey(body.obj, "text")
  /\ Get(body.obj, "text").t = "str"
  /\ Strip(Get(body.obj, "text").s) = <<>>

\* C19: the text a successful transcribe returns has no leading or trailing
\* whitespace, and a response whose text is empty or blank makes transcribe
\* return the empty string
C19_ResultIsTrimmed ==
  /\ result.ok => Trimmed(result.text)
  /\ (pc = "done" /\ BlankText) => (result.ok /\ result.text = <<>>)

\* ------------------------------------------------------------ C18

\* C18: the audio part of every request an adapter sends holds the WAV bytes
\* convert_to_wav_bytes made of the caller's audio
C18_ProvidersGetCanonicalAudio ==
  \A k \in 1..Len(sent) : sent[k].audio = "wav"

\* ------------------------------------------------------------ C20

OneRequestAdapters == { "WhisperJAXModel", "ChunkformerModel", "OmniLingualAPIModel" }

\* the one request was not answered with a 200
RequestFailed == sent # <<>> /\ (response = NoResponse \/ response.status # 200)

\* C20: WhisperJAXModel, ChunkformerModel and OmniLingualAPIModel post at most
\* one request in a call, and when it is not answered with a 200 the call has
\* failed with that failure: the exception of requests.post, or the status
C20_OneRequestOnly ==
  adapter \in OneRequestAdapters =>
    /\ Len(sent) <= 1
    /\ RequestFailed =>
         /\ pc = "done"
         /\ ~result.ok
         /\ IF response = NoResponse THEN result.kind = "RequestException"
            ELSE /\ result.kind \in { "HTTPError", "ApiRequestFailed" }
                 /\ result.status = response.status

\* OmniLingualAPIModel's one request was answered 500 and the call failed with it
C20_Witness ==
  /\ adapter = "OmniLingualAPIModel"
  /\ Len(sent) = 1
  /\ response.status = 500
  /\ result.kind = "ApiRequestFailed"
  /\ result.status = 500

\* ------------------------------------------------------------ ChunkformerModel: status bodies

\* the keys ChunkformerModel.transcribe reads, and "message"
ChunkformerKeys == { "status", "message", "text" }

ChunkformerValues ==
  { StrVal(<<"e", "r", "r", "o", "r">>),
    StrVal(<<" ", "h", "i", " ">>),
    StrVal(<<>>),
    NumVal }

\* the JSON objects over these keys, fields in any order
ChunkformerBodies ==
  { [kind |-> "object", obj |-> o, str |-> <<>>] :
      o \in UNION { { f \in [1..n -> [key : ChunkformerKeys, val : ChunkformerValues]] :
                        \A i, j \in 1..n : i # j => f[i].key # f[j].key } :
                    n \in 0..Cardinality(ChunkformerKeys) } }

\* ChunkformerModel: result = response.json() of a 200 answer and what follows
ChunkformerParse ==
  /\ pc = "parse"
  /\ adapter = "ChunkformerModel"
  /\ \E b \in ChunkformerBodies :
       /\ body' = b
       /\ result' = ChunkformerExtract(b)
  /\ pc' = "done"
  /\ UNCHANGED <<pcmVars, regVars, inputVars, convVars, sweepVars, streamAtEnd, sent, response>>

\* ChunkformerModel.transcribe at the point where the audio is converted
InitChunkformer ==
  /\ RegistryInit
  /\ pcm = StereoClip
  /\ audio_array = ToMono(sf_read(StereoClip))
  /\ wav = WavSamples(ToMono(sf_read(StereoClip)))
  /\ adapter = "ChunkformerModel"
  /\ task = "transcribe"
  /\ language \in Languages
  /\ audio = "data"
  /\ libs = TRUE
  /\ endpoint \in Endpoints(adapter)
  /\ pc = "conv_ok"
  /\ invoked = <<"soundfile">>
  /\ stageErrors = <<>>
  /\ subprocessRuns = 0
  /\ created = {}
  /\ tmpFiles = {}
  /\ ffPending = ""
  /\ conv = [NoConv EXCEPT !.state = "ok", !.via = "soundfile"]
  /\ streamAtEnd = FALSE
  /\ lang_candidates = <<>>
  /\ candidates = <<>>
  /\ li = 1
  /\ ui = 1
  /\ sent = <<>>
  /\ response = NoResponse
  /\ last_error = NoError
  /\ body = NoBody
  /\ result = NoResult

\* the POST and the parsing of its answer
NextChunkformer ==
  \/ ChunkformerPost
  \/ ChunkformerParse

SpecChunkformer == InitChunkformer /\ [][NextChunkformer]_vars

\* ------------------------------------------------------------ C21

\* the decoded body's "status" is "error"
StatusError ==
  /\ body.kind = "object"
  /\ HasKey(body.obj, "status")
  /\ Get(body.obj, "status") = StrVal(<<"e", "r", "r", "o", "r">>)

\* C21: when ChunkformerModel decodes a 200 body whose "status" is "error", the
\* call fails with "API error: ..." carrying the body's "message", whether or
\* not the body has a "text" field; no text is returned
C21_StatusErrorRaises ==
  (adapter = "ChunkformerModel" /\ pc = "done" /\ StatusError) =>
    /\ ~result.ok
    /\ result.kind = "ApiError"
    /\ HasKey(body.obj, "message") => result.text = Format(Get(body.obj, "message"))

\* a body with a text, an error status and a message: the call failed with the message
C21_Witness ==
  /\ adapter = "ChunkformerModel"
  /\ pc = "done"
  /\ body.obj = << [key |-> "text", val |-> StrVal(<<" ", "h", "i", " ">>)],
                   [key |-> "status", val |-> StrVal(<<"e", "r", "r", "o", "r">>)],
                   [key |-> "message", val |-> StrVal(<<" ", "h", "i", " ">>)] >>
  /\ ~result.ok
  /\ result.text = <<" ", "h", "i", " ">>

\* ------------------------------------------------------------ convert_to_wav_bytes: the mono mix

\* convert_to_wav_bytes called (by ChunkformerModel.transcribe) on every clip
InitMono ==
  /\ RegistryInit
  /\ adapter = "ChunkformerModel"
  /\ task = "transcribe"
  /\ language = None
  /\ audio = "data"
  /\ endpoint \in Endpoints(adapter)
  /\ libs = TRUE
  /\ pcm \in Clips
  /\ audio_array = NoArray
  /\ wav = <<>>
  /\ pc = "call"
  /\ invoked = <<>>
  /\ stageErrors = <<>>
  /\ subprocessRuns = 0
  /\ created = {}
  /\ tmpFiles = {}
  /\ ffPending = ""
  /\ conv = NoConv
  /\ streamAtEnd = FALSE
  /\ lang_candidates = <<>>
  /\ candidates = <<>>
  /\ li = 1
  /\ ui = 1
  /\ sent = <<>>
  /\ response = NoResponse
  /\ last_error = NoError
  /\ body = NoBody
  /\ result = NoResult

\* the two in-process decoders and what follows them
NextMono ==
  \/ BeginConvert
  \/ TrySoundfile
  \/ TryLibrosa
  \/ PostDecode

SpecMono == InitMono /\ [][NextMono]_vars

\* ------------------------------------------------------------ C22

\* the average of a frame's channel samples, as the int16 written for it
FrameAverage(frame) == AsInt16(<<Sum(frame), Len(frame)>>)

\* C22: after soundfile or librosa decoded the clip, the WAV holds one sample per
\* frame of the clip, each the average of the frame's channel samples
C22_OneAveragedSamplePerFrame ==
  (conv.state = "ok" /\ conv.via \in { "soundfile", "librosa" }) =>
    /\ Len(wav) = Len(pcm)
    /\ \A i \in 1..Len(pcm) : wav[i] = FrameAverage(pcm[i])

\* ------------------------------------------------------------ C23

\* C23: every request of Qwen3Model's sweep, the first and the later ones, carries
\* the complete WAV bytes as its audio part
C23_EveryRequestCarriesTheWav ==
  IsQwen => \A k \in 1..Len(sent) : sent[k].audio = "wav"

\* ------------------------------------------------------------ C24

\* the loops are over and the last response is one the sweep continues on: the
\* sweep ended without a 200 and without raising
SweepEndedOnClientError ==
  /\ IsQwen
  /\ pc \in { "swept", "done" }
  /\ response.status \in { 400, 404, 405, 422 }
  /\ result.kind # "RequestException"

\* the loops are over and no request completed or raised
SweepEndedWithoutResponse ==
  /\ IsQwen
  /\ pc \in { "swept", "done" }
  /\ conv.state = "ok"
  /\ response = NoResponse
  /\ result.kind # "RequestException"

\* C24: when the sweep ends without a 200 and without raising, a client error
\* was recorded and the recorded body is the body of the last response, so the
\* error raised carries the status and the body of that one response; the sweep
\* ends without any response only when there is no endpoint candidate, and the
\* call then fails with "No endpoint configured"
C24_RecordedBodyIsLastBody ==
  /\ SweepEndedOnClientError =>
       /\ Len(sent) = SweepPairs
       /\ last_error.some
       /\ last_error.text = response.text
       /\ pc = "done" =>
            /\ result.kind = "ApiRequestFailed"
            /\ result.status = response.status
            /\ result.body = response.text
  /\ SweepEndedWithoutResponse =>
       /\ candidates = <<>>
       /\ sent = <<>>
       /\ pc = "done" => result.kind = "NoEndpointConfigured"

\* two languages were swept over every endpoint, the bodies recorded on the way
\* differing from the last one, and the call failed with the last response
C24_Witness ==
  /\ SweepEndedOnClientError
  /\ pc = "done"
  /\ Len(lang_candidates) = 2
  /\ Len(sent) = 2 * Len(candidates)
  /\ response = [status |-> 422, text |-> "e2"]
  /\ result.body = "e2"

\* ------------------------------------------------------------ C25

\* C25: normalize_lang_code is idempotent: normalizing a normalized code gives
\* the same code, so "en_US", which normalizes to "en", gives what "en" gives
C25_NormalizeIsIdempotent ==
  SetupDone =>
    normalize_lang_code(normalize_lang_code(language)) = normalize_lang_code(language)

====
